---- MODULE Spec2Model ----
(***************************************************************************)
(* Model of analyzer.py: the resumable batch orchestrator                  *)
(* (batch_analyze_websites, with its nested signal_handler and             *)
(* save_checkpoint) and the sitemap resolver (parse_sitemap).              *)
(*                                                                         *)
(* A site identifier (a normalized URL of the worklist) is a number in     *)
(* Ids.  The files of the output directory are state: the checkpoint file, *)
(* the per-site result files and the summary file survive a process exit;  *)
(* everything else is the memory of one run of the process.                *)
(*                                                                         *)
(* SIGINT is an environment step.  Before signal.signal() has run it       *)
(* raises KeyboardInterrupt at the statement being executed; afterwards it *)
(* runs signal_handler, whose sys.exit(0) raises SystemExit at the         *)
(* statement being executed.  A bare "except:" catches both.               *)
(***************************************************************************)
EXTENDS Integers, Sequences, FiniteSets, TLC

\* ---------------------------------------------------------------- bounds
NumIds == 3          \* distinct site identifiers
MaxLen == 3          \* longest worklist
MaxRuns == 2         \* process runs against the same output directory
MaxSigs == 1         \* SIGINTs delivered to one run
RecLimit == 4        \* interpreter recursion limit, in parse_sitemap frames
NumSitemaps == 2     \* sitemap documents of the site
NumLeaves == 2       \* distinct page URLs listed in sitemaps
MaxLinks == 2        \* <a href> elements of the main page
MaxUrls == 3         \* URLs handed to categorize_urls
MaxCats == 3         \* categories of a categorized set that have URLs
MaxPerCat == 4       \* URLs in one category
MaxN == 5            \* largest max_urls passed to select_priority_urls
MaxPages == 2        \* priority URLs of the site being analysed

Ids == 1..NumIds

VARIABLES
    \* --- files of the output directory
    checkpoint_file,   \* [exists, valid, completed]: .checkpoint.json
    files,             \* result file name -> identifier whose result it holds (0: no file)
    summary_file,      \* batch_summary.json, with the run that wrote it (run 0: no file)
    \* --- memory of the running process
    urls,              \* the worklist read from the CSV file
    pc,                \* position in batch_analyze_websites
    completed_urls,
    remaining_urls,
    idx,               \* position of the for loop in remaining_urls
    result,            \* what analyze_website gave for the current item
    all_results,
    failed_urls,
    \* --- history
    run,               \* number of the current run
    loaded,            \* completed_urls as it was after loading the checkpoint
    loadSwallowed,     \* a KeyboardInterrupt was swallowed while loading
    analyzed,          \* the calls of analyze_website of this run: <<[url, out]>>,
                       \* out: "running", "ok", "failed" or "sysexit"
    sigs,              \* SIGINTs delivered to this run
    sigRunning,        \* the last step was a SIGINT handled by signal_handler
    prevLoaded,        \* loaded, completed_urls and pc of the previous run at its end
    prevCompleted,
    prevExit,
    \* --- parse_sitemap
    docs,              \* sitemap URL -> [ok, subs, locs]: what the site serves
    stack,             \* call stack of parse_sitemap frames
    resolved,          \* value returned by the outermost parse_sitemap
    fetched,           \* sitemap URLs requested by parse_sitemap so far, in order
    \* --- discover_all_urls
    hrefs,             \* the href values of the main page's links, in document order
    dpc,               \* position in discover_all_urls
    all_urls,          \* the set all_urls, as the list of its members
    probe,             \* index of the for loop over sitemap_urls
    probed,            \* sitemap URLs requested by discover_all_urls itself, in order
    discovered,        \* the returned list(all_urls)
    \* --- categorize_urls
    cat_urls,          \* the argument urls of categorize_urls
    ci,                \* number of URLs the for loop has handled
    categories,        \* the dict categories: category -> list of URLs
    \* --- select_priority_urls
    categorized_urls,  \* the argument: category -> list of URLs
    max_urls,          \* the argument max_urls
    si,                \* number of priority_categories entries handled
    priority_urls,     \* the list being built
    spc,               \* position in select_priority_urls
    selected,          \* the returned list
    \* --- analyze_website
    site,              \* what the site and the text generator answer
    apc,               \* position in analyze_website
    called,            \* requests and calls made so far, in order
    page_i,            \* number of priority pages handled
    all_content,       \* the sections collected for the prompt
    ret                \* what analyze_website returned

batchVars == <<checkpoint_file, files, summary_file, urls, pc, completed_urls,
               remaining_urls, idx, result, all_results, failed_urls, run,
               loaded, loadSwallowed, analyzed, sigs, sigRunning,
               prevLoaded, prevCompleted, prevExit>>
frontierVars == <<hrefs, dpc, all_urls, probe, probed, discovered>>
sitemapVars == <<docs, stack, resolved, fetched, frontierVars>>
categorizeVars == <<cat_urls, ci, categories>>
selectVars == <<categorized_urls, max_urls, si, priority_urls, spc, selected>>
analyzeVars == <<site, apc, called, page_i, all_content, ret>>
pageVars == <<categorizeVars, selectVars, analyzeVars>>
vars == <<batchVars, sitemapVars, pageVars>>

\* ---------------------------------------------------------------- helpers
Range(s) == {s[i] : i \in 1..Len(s)}

SeqsUpTo(S, n) == UNION {[1..k -> S] : k \in 0..n}

NoDup(s) == \A i, j \in 1..Len(s) : s[i] = s[j] => i = j

\* ------------------------------------------------ the output directory
\* urlparse(url).netloc.replace('.', '_'): the result file name is made from
\* the host alone, so identifiers 2k-1 and 2k (the same host under two
\* schemes or paths) get the same file name.
Domain(u) == (u + 1) \div 2

Domains == {Domain(u) : u \in Ids}

NoCheckpoint == [exists |-> FALSE, valid |-> FALSE, completed |-> {}]

NoSummary == [run |-> 0, total_urls |-> 0, completed |-> 0, failed |-> 0,
              failed_urls |-> <<>>, results |-> <<>>]

\* What json.load and checkpoint_data.get('completed', []) give for the file:
\* a missing file is never opened, an unreadable one raises inside the try.
CheckpointContents(f) == IF f.exists /\ f.valid THEN f.completed ELSE {}

\* The file left by save_checkpoint() for the completed set c.  Writes to
\* the output directory are taken to succeed and to be whole (a write cut
\* short is outside what the program promises).
save_checkpoint(c) == [exists |-> TRUE, valid |-> TRUE, completed |-> c]

\* remaining_urls = [url for url in urls if url not in completed_urls]
\* (faulty variant: the worklist is not filtered)
RemainingUnfiltered(us, done) == us

Remaining(us, done) == SelectSeq(us, LAMBDA u : u \notin done)

\* What analyze_website can give the batch loop: a result with analysis text,
\* None (main page not fetched), a result whose analysis is None (generate
\* failed), an Exception, or SystemExit (create_ai_provider's sys.exit(1)).
Outcomes == {"ok", "none", "noanalysis", "raise", "sysexit"}

\* The three outcomes the loop treats as the item's failure.
Failures == {"none", "noanalysis", "raise"}

\* How the history records a call's outcome.
Recorded(out) == IF out \in Failures THEN "failed" ELSE out

Terminal == {"returned", "returned_early", "exit_sigint", "exit_fatal",
             "exit_provider", "exit_nourls", "killed"}

\* Positions at which signal.signal(SIGINT, signal_handler) has been executed.
Running == {"loop", "analyzing", "settle", "append", "add", "save"}
AfterLoop == {"summary", "remove", "print", "fatal"}

ExitStatus(p) == CASE p \in {"returned", "returned_early", "exit_sigint"} -> 0
                   [] p \in {"exit_fatal", "exit_provider", "exit_nourls"} -> 1
                   [] p = "killed" -> 130
                   [] OTHER -> -1

\* for url in pbar: the item the loop is at
\* (faulty variant: the list is walked from its end)
CurFromEnd == remaining_urls[Len(remaining_urls) + 1 - idx]

Cur == remaining_urls[idx]

histPrev == <<prevLoaded, prevCompleted, prevExit>>
disk == <<checkpoint_file, files, summary_file>>
memory == <<completed_urls, remaining_urls, idx, result, all_results, failed_urls>>

\* ------------------------------------------------------------------ Init
\* ------------------------------------------------------- URL categories
\* Strings are handled as Python handles them: keyword in path is a substring
\* test, lower() maps letter by letter, urlparse(url).path is the part of the
\* URL after the host and before any ? or #.
KeywordIn(keyword, path) ==
    \E i \in 0..(Len(path) - Len(keyword)) : SubSeq(path, i + 1, i + Len(keyword)) = keyword

UpperCase == <<"A", "B", "C", "D", "E", "F", "G", "H", "I", "J", "K", "L", "M",
               "N", "O", "P", "Q", "R", "S", "T", "U", "V", "W", "X", "Y", "Z">>

LowerCase == <<"a", "b", "c", "d", "e", "f", "g", "h", "i", "j", "k", "l", "m",
               "n", "o", "p", "q", "r", "s", "t", "u", "v", "w", "x", "y", "z">>

lower_char(c) ==
    IF c \in Range(UpperCase)
      THEN LowerCase[CHOOSE k \in 1..Len(UpperCase) : UpperCase[k] = c]
      ELSE c

RECURSIVE lower(_)
lower(str) == IF Len(str) = 0 THEN ""
              ELSE lower_char(SubSeq(str, 1, 1)) \o lower(SubSeq(str, 2, Len(str)))

\* the part of str before the first character that is in stops
RECURSIVE Until(_, _)
Until(str, stops) ==
    IF Len(str) = 0 \/ SubSeq(str, 1, 1) \in stops THEN ""
    ELSE SubSeq(str, 1, 1) \o Until(SubSeq(str, 2, Len(str)), stops)

\* urlparse(url).path for an absolute https URL
urlparse_path(url) ==
    LET rest == SubSeq(url, Len("https://") + 1, Len(url))
        netloc == Until(rest, {"/", "?", "#"})
    IN  Until(SubSeq(rest, Len(netloc) + 1, Len(rest)), {"?", "#"})

\* the keys of the dict categories, in the order they are created
Categories == {"homepage", "about", "products", "services", "blog", "case_studies",
               "testimonials", "pricing", "contact", "team", "careers", "news",
               "resources", "other"}

\* if path in ['/', '/home', '/index']
HomePaths == {"/", "/home", "/index"}

\* the elif chain, in source order
Rules == <<
    [category |-> "about",        keywords |-> <<"about", "company", "who-we-are">>],
    [category |-> "products",     keywords |-> <<"product", "solution">>],
    [category |-> "services",     keywords |-> <<"service", "offering">>],
    [category |-> "blog",         keywords |-> <<"blog", "article", "post">>],
    [category |-> "case_studies", keywords |-> <<"case-stud", "success", "customer">>],
    [category |-> "testimonials", keywords |-> <<"testimonial", "review">>],
    [category |-> "pricing",      keywords |-> <<"pricing", "price", "plan">>],
    [category |-> "contact",      keywords |-> <<"contact", "reach">>],
    [category |-> "team",         keywords |-> <<"team", "people", "staff">>],
    [category |-> "careers",      keywords |-> <<"career", "job", "hiring">>],
    [category |-> "news",         keywords |-> <<"news", "press">>],
    [category |-> "resources",    keywords |-> <<"resource", "download", "guide">>] >>

\* any(keyword in path for keyword in [...]) for rule r
AnyKeyword(r, path) ==
    \E k \in 1..Len(Rules[r].keywords) : KeywordIn(Rules[r].keywords[k], path)

\* the rules whose condition is true for the path
Hits(path) == {r \in 1..Len(Rules) : AnyKeyword(r, path)}

\* Faulty variant of the chain: the last true condition decides.
LastRule(hits) == CHOOSE r \in hits : \A q \in hits : q <= r

\* if / elif: the first true condition decides
FirstRule(hits) == CHOOSE r \in hits : \A q \in hits : r <= q

\* Faulty variant of the chain: independent if statements, so a URL is
\* appended under every rule whose condition is true.
EveryMatch(url) ==
    LET path == lower(urlparse_path(url))
        matching == {Rules[r].category : r \in Hits(path)}
    IN  IF path \in HomePaths THEN {"homepage"} \cup matching
        ELSE IF matching = {} THEN {"other"}
        ELSE matching

\* the lists one pass of the loop body appends url to
Targets(url) ==
    LET path == lower(urlparse_path(url))
    IN  IF path \in HomePaths THEN {"homepage"}
        ELSE IF Hits(path) = {} THEN {"other"}
        ELSE {Rules[FirstRule(Hits(path))].category}

\* URLs of one site as the frontier may hand them over
SampleUrls == {
    "https://site.test",
    "https://site.test/",
    "https://site.test/home",
    "https://site.test/Index",
    "https://site.test/index.html",
    "https://site.test/about/careers",
    "https://site.test/About-Us",
    "https://site.test/products/pricing",
    "https://site.test/services",
    "https://site.test/blog/customer-success",
    "https://site.test/case-studies",
    "https://site.test/reviews",
    "https://site.test/plans",
    "https://site.test/contact",
    "https://site.test/people",
    "https://site.test/jobs/press",
    "https://site.test/press",
    "https://site.test/guides",
    "https://site.test/faq?from=about#team",
    "https://site.test/home/team" }

\* the outcome of the chain for each of the URLs
TargetsOf == [url \in SampleUrls |-> Targets(url)]

NoCategories == [c \in Categories |-> <<>>]

CategorizeIdle ==
    /\ cat_urls = <<>>
    /\ ci = 0
    /\ categories = NoCategories

SelectIdle ==
    /\ categorized_urls = NoCategories
    /\ max_urls = 0
    /\ si = 0
    /\ priority_urls = <<>>
    /\ spc = "idle"
    /\ selected = <<>>

\* the keys of metadata_files
MetaFiles == {"robots.txt", "sitemap.xml", "sitemap_index.xml", "humans.txt",
              "llms.txt", "ai.txt", "security.txt"}

\* What the site and the text generator answer during one analyze_website:
\*   tech      detect_technologies gets its page and returns a result
\*   main      get_page_content(url): None, an empty text, or a text
\*   dom       the second request for the main page answers 200 (else soup
\*             is None and the page gives no links)
\*   sitemap   one of the two sitemap URLs resolves to some URLs
\*   meta      the metadata files that answer 200
\*   pages     for each priority URL that the links and the sitemap lead to,
\*             whether get_page_content gives a text
\*   provider  the provider's constructor succeeds (else sys.exit(1))
\*   gen       generate returns a text (else None)
Sites == [tech : BOOLEAN, main : {"none", "empty", "text"}, dom : BOOLEAN,
          sitemap : BOOLEAN, meta : SUBSET MetaFiles,
          pages : SeqsUpTo(BOOLEAN, MaxPages), provider : BOOLEAN, gen : BOOLEAN]

NoSite == [tech |-> FALSE, main |-> "none", dom |-> FALSE, sitemap |-> FALSE,
           meta |-> {}, pages |-> <<>>, provider |-> FALSE, gen |-> FALSE]

\* priority_urls = select_priority_urls(categorize_urls(all_urls)): without
\* links and without sitemap URLs nothing is discovered, so nothing is selected
PriorityPages == IF site.dom \/ site.sitemap THEN site.pages ELSE <<>>

NotReturned == [kind |-> "pending"]

AnalyzeIdle ==
    /\ site = NoSite
    /\ apc = "idle"
    /\ called = <<>>
    /\ page_i = 0
    /\ all_content = <<>>
    /\ ret = NotReturned

PageIdle == CategorizeIdle /\ SelectIdle /\ AnalyzeIdle

SitemapIdle ==
    /\ docs = [s \in 1..NumSitemaps |->
                 [http200 |-> FALSE, ok |-> FALSE, subs |-> <<>>, locs |-> <<>>]]
    /\ stack = <<>>
    /\ resolved = <<>>
    /\ fetched = <<>>
    /\ hrefs = <<>>
    /\ dpc = "idle"
    /\ all_urls = <<>>
    /\ probe = 0
    /\ probed = <<>>
    /\ discovered = <<>>

\* A run is about to start on some worklist, in an output directory holding
\* no checkpoint, an unreadable one, or one written by an earlier run.
InitBatch ==
    /\ urls \in SeqsUpTo(Ids, MaxLen)
    /\ checkpoint_file \in
          {NoCheckpoint, [exists |-> TRUE, valid |-> FALSE, completed |-> {}]}
          \cup {save_checkpoint(c) : c \in SUBSET Ids}
    /\ files = [d \in Domains |-> 0]
    /\ summary_file = NoSummary
    /\ pc = "start"
    /\ completed_urls = {}
    /\ remaining_urls = <<>>
    /\ idx = 0
    /\ result = "unset"
    /\ all_results = <<>>
    /\ failed_urls = <<>>
    /\ run = 1
    /\ loaded = {}
    /\ loadSwallowed = FALSE
    /\ analyzed = <<>>
    /\ sigs = 0
    /\ sigRunning = FALSE
    /\ prevLoaded = {}
    /\ prevCompleted = {}
    /\ prevExit = "none"

Init == InitBatch /\ SitemapIdle /\ PageIdle

\* ------------------------------------------------- batch_analyze_websites
\* urls = read_urls_from_csv(csv_file); if not urls: sys.exit(1)
ReadUrls ==
    /\ pc = "start"
    /\ pc' = IF urls = <<>> THEN "exit_nourls" ELSE "load"
    /\ sigRunning' = FALSE
    /\ UNCHANGED <<disk, urls, memory, run, loaded, loadSwallowed, analyzed, sigs,
                   histPrev, sitemapVars, pageVars>>

\* completed_urls = set(); if the file exists, load it inside try/except-pass.
\* (faulty variant: an unreadable file is passed to the outer handler)
LoadCheckpointAborts ==
    /\ pc = "load"
    /\ completed_urls' = CheckpointContents(checkpoint_file)
    /\ loaded' = completed_urls'
    /\ pc' = IF checkpoint_file.exists /\ ~checkpoint_file.valid THEN "exit_fatal" ELSE "filter"
    /\ sigRunning' = FALSE
    /\ UNCHANGED <<disk, urls, remaining_urls, idx, result, all_results, failed_urls,
                   run, loadSwallowed, analyzed, sigs, histPrev, sitemapVars, pageVars>>

LoadCheckpoint ==
    /\ pc = "load"
    /\ completed_urls' = CheckpointContents(checkpoint_file)
    /\ loaded' = completed_urls'
    /\ pc' = "filter"
    /\ sigRunning' = FALSE
    /\ UNCHANGED <<disk, urls, remaining_urls, idx, result, all_results, failed_urls,
                   run, loadSwallowed, analyzed, sigs, histPrev, sitemapVars, pageVars>>

\* remaining_urls = [...]; if not remaining_urls: return; all_results = [];
\* failed_urls = []; pbar = tqdm(...); signal.signal(SIGINT, signal_handler)
FilterRemaining ==
    /\ pc = "filter"
    /\ remaining_urls' = Remaining(urls, completed_urls)
    /\ pc' = IF remaining_urls' = <<>> THEN "returned_early" ELSE "loop"
    /\ idx' = 1
    /\ sigRunning' = FALSE
    /\ UNCHANGED <<disk, urls, completed_urls, result, all_results, failed_urls,
                   run, loaded, loadSwallowed, analyzed, sigs, histPrev, sitemapVars, pageVars>>

\* for url in pbar: pbar.set_description(...); try: analyze_website(url, ...)
\* The loop is left when pbar is exhausted.
LoopNext ==
    /\ pc = "loop"
    /\ IF idx > Len(remaining_urls)
          THEN pc' = "summary" /\ UNCHANGED analyzed
          ELSE pc' = "analyzing" /\ analyzed' = Append(analyzed, [url |-> Cur, out |-> "running"])
    /\ sigRunning' = FALSE
    /\ UNCHANGED <<disk, urls, memory, run, loaded, loadSwallowed, sigs, histPrev,
                   sitemapVars, pageVars>>

\* analyze_website returns or raises.  SystemExit is no Exception: neither
\* the per-item handler nor the outer handler catches it.
AnalyzeWebsite ==
    /\ pc = "analyzing"
    /\ \E out \in Outcomes :
          /\ analyzed' = [analyzed EXCEPT ![Len(analyzed)].out = Recorded(out)]
          /\ result' = out
          /\ pc' = IF out = "sysexit" THEN "exit_provider" ELSE "settle"
    /\ sigRunning' = FALSE
    /\ UNCHANGED <<disk, urls, completed_urls, remaining_urls, idx, all_results,
                   failed_urls, run, loaded, loadSwallowed, sigs, histPrev, sitemapVars, pageVars>>

\* if result and result.get('analysis'): ... json.dump(result, f, indent=2)
PersistResult ==
    /\ pc = "settle"
    /\ result = "ok"
    /\ files' = [files EXCEPT ![Domain(Cur)] = Cur]
    /\ pc' = "append"
    /\ sigRunning' = FALSE
    /\ UNCHANGED <<checkpoint_file, summary_file, urls, memory, run, loaded,
                   loadSwallowed, analyzed, sigs, histPrev, sitemapVars, pageVars>>

\* else: failed_urls.append(url) / except Exception: failed_urls.append(url); continue
\* (faulty variant: the failure is passed to the outer handler)
RecordFailureHalts ==
    /\ pc = "settle"
    /\ result # "ok"
    /\ failed_urls' = Append(failed_urls, Cur)
    /\ pc' = "fatal"
    /\ sigRunning' = FALSE
    /\ UNCHANGED <<disk, urls, completed_urls, remaining_urls, idx, result, all_results,
                   run, loaded, loadSwallowed, analyzed, sigs, histPrev, sitemapVars, pageVars>>

RecordFailure ==
    /\ pc = "settle"
    /\ result # "ok"
    /\ failed_urls' = Append(failed_urls, Cur)
    /\ idx' = idx + 1
    /\ pc' = "loop"
    /\ sigRunning' = FALSE
    /\ UNCHANGED <<disk, urls, completed_urls, remaining_urls, result, all_results,
                   run, loaded, loadSwallowed, analyzed, sigs, histPrev, sitemapVars, pageVars>>

\* all_results.append(result)
AppendResult ==
    /\ pc = "append"
    /\ all_results' = Append(all_results, Cur)
    /\ pc' = "add"
    /\ sigRunning' = FALSE
    /\ UNCHANGED <<disk, urls, completed_urls, remaining_urls, idx, result, failed_urls,
                   run, loaded, loadSwallowed, analyzed, sigs, histPrev, sitemapVars, pageVars>>

\* completed_urls.add(url)
AddCompleted ==
    /\ pc = "add"
    /\ completed_urls' = completed_urls \cup {Cur}
    /\ pc' = "save"
    /\ sigRunning' = FALSE
    /\ UNCHANGED <<disk, urls, remaining_urls, idx, result, all_results, failed_urls,
                   run, loaded, loadSwallowed, analyzed, sigs, histPrev, sitemapVars, pageVars>>

\* save_checkpoint(), then the next iteration
\* (faulty variant: the checkpoint is not flushed after the item)
SkipFlush ==
    /\ pc = "save"
    /\ idx' = idx + 1
    /\ pc' = "loop"
    /\ sigRunning' = FALSE
    /\ UNCHANGED <<disk, urls, completed_urls, remaining_urls, result, all_results,
                   failed_urls, run, loaded, loadSwallowed, analyzed, sigs, histPrev,
                   sitemapVars, pageVars>>

FlushCheckpoint ==
    /\ pc = "save"
    /\ checkpoint_file' = save_checkpoint(completed_urls)
    /\ idx' = idx + 1
    /\ pc' = "loop"
    /\ sigRunning' = FALSE
    /\ UNCHANGED <<files, summary_file, urls, completed_urls, remaining_urls, result,
                   all_results, failed_urls, run, loaded, loadSwallowed, analyzed, sigs,
                   histPrev, sitemapVars, pageVars>>

\* summary = {...}; json.dump(summary, f, indent=2)
\* (faulty variant: completed counts the worklist, not the completed set)
SummaryCountsWorklist(total, done, failed, results) ==
    [run |-> run, total_urls |-> Len(total), completed |-> Len(total),
     failed |-> Len(failed), failed_urls |-> failed, results |-> results]

SummaryOf(total, done, failed, results) ==
    [run |-> run, total_urls |-> Len(total), completed |-> Cardinality(done),
     failed |-> Len(failed), failed_urls |-> failed, results |-> results]

WriteSummary ==
    /\ pc = "summary"
    /\ summary_file' = SummaryOf(urls, completed_urls, failed_urls, all_results)
    /\ pc' = "remove"
    /\ sigRunning' = FALSE
    /\ UNCHANGED <<checkpoint_file, files, urls, memory, run, loaded, loadSwallowed,
                   analyzed, sigs, histPrev, sitemapVars, pageVars>>

\* if os.path.exists(checkpoint_file): os.remove(checkpoint_file)
\* (faulty variant: the file is left in place)
KeepCheckpoint ==
    /\ pc = "remove"
    /\ pc' = "print"
    /\ sigRunning' = FALSE
    /\ UNCHANGED <<disk, urls, memory, run, loaded, loadSwallowed, analyzed, sigs,
                   histPrev, sitemapVars, pageVars>>

RemoveCheckpoint ==
    /\ pc = "remove"
    /\ checkpoint_file' = NoCheckpoint
    /\ pc' = "print"
    /\ sigRunning' = FALSE
    /\ UNCHANGED <<files, summary_file, urls, memory, run, loaded, loadSwallowed,
                   analyzed, sigs, histPrev, sitemapVars, pageVars>>

\* the closing print(...) lines, then the function returns
PrintComplete ==
    /\ pc = "print"
    /\ pc' = "returned"
    /\ sigRunning' = FALSE
    /\ UNCHANGED <<disk, urls, memory, run, loaded, loadSwallowed, analyzed, sigs,
                   histPrev, sitemapVars, pageVars>>

\* An Exception raised by a statement of the outer try that is not inside the
\* per-item try: the for statement and pbar.set_description(urlparse(url)...),
\* the summary, the removal, the closing prints.
BookkeepingError ==
    /\ pc \in {"loop", "summary", "remove", "print"}
    /\ pc' = "fatal"
    /\ sigRunning' = FALSE
    /\ UNCHANGED <<disk, urls, memory, run, loaded, loadSwallowed, analyzed, sigs,
                   histPrev, sitemapVars, pageVars>>

\* except Exception as e: print(...); save_checkpoint(); sys.exit(1)
\* (faulty variant: exit without the flush)
FatalNoFlush ==
    /\ pc = "fatal"
    /\ pc' = "exit_fatal"
    /\ sigRunning' = FALSE
    /\ UNCHANGED <<disk, urls, memory, run, loaded, loadSwallowed, analyzed, sigs,
                   histPrev, sitemapVars, pageVars>>

FatalHandler ==
    /\ pc = "fatal"
    /\ checkpoint_file' = save_checkpoint(completed_urls)
    /\ pc' = "exit_fatal"
    /\ sigRunning' = FALSE
    /\ UNCHANGED <<files, summary_file, urls, memory, run, loaded, loadSwallowed,
                   analyzed, sigs, histPrev, sitemapVars, pageVars>>

\* SIGINT once signal_handler is installed: save_checkpoint(); sys.exit(0).
\* SystemExit is raised at the statement the main thread is executing.  Inside
\* analyze_website that statement may be under a bare "except:" (the metadata
\* fetches, the sitemap probes, the main-page re-fetch), which swallows it: the
\* analysis then goes on.
\* (faulty variant: the handler exits without the flush)
HandlerExitsOnly ==
    /\ pc \in Running \cup AfterLoop
    /\ sigs < MaxSigs
    /\ sigs' = sigs + 1
    /\ sigRunning' = TRUE
    /\ \/ pc' = "exit_sigint"
       \/ pc = "analyzing" /\ pc' = pc
    /\ UNCHANGED <<disk, urls, memory, run, loaded, loadSwallowed, analyzed, histPrev,
                   sitemapVars, pageVars>>

signal_handler ==
    /\ pc \in Running \cup AfterLoop
    /\ sigs < MaxSigs
    /\ sigs' = sigs + 1
    /\ sigRunning' = TRUE
    /\ checkpoint_file' = save_checkpoint(completed_urls)
    /\ \/ pc' = "exit_sigint"
       \/ pc = "analyzing" /\ pc' = pc
    /\ UNCHANGED <<files, summary_file, urls, memory, run, loaded, loadSwallowed,
                   analyzed, histPrev, sitemapVars, pageVars>>

\* SIGINT before signal_handler is installed: KeyboardInterrupt.  It ends the
\* process, except inside the try of the checkpoint load, whose bare
\* "except: pass" swallows it and leaves completed_urls = set().
KeyboardInterrupt ==
    /\ pc \in {"start", "load", "filter"}
    /\ sigs < MaxSigs
    /\ sigs' = sigs + 1
    /\ sigRunning' = FALSE
    /\ \/ pc' = "killed" /\ UNCHANGED <<loaded, loadSwallowed>>
       \/ /\ pc = "load"
          /\ checkpoint_file.exists
          /\ pc' = "filter"
          /\ loaded' = completed_urls
          /\ loadSwallowed' = TRUE
    /\ UNCHANGED <<disk, urls, memory, run, analyzed, histPrev, sitemapVars, pageVars>>

\* The process has ended; the same command is run again on the same CSV file
\* and output directory.
Rerun ==
    /\ pc \in Terminal
    /\ run < MaxRuns
    /\ run' = run + 1
    /\ prevLoaded' = loaded
    /\ prevCompleted' = completed_urls
    /\ prevExit' = pc
    /\ pc' = "start"
    /\ completed_urls' = {}
    /\ remaining_urls' = <<>>
    /\ idx' = 0
    /\ result' = "unset"
    /\ all_results' = <<>>
    /\ failed_urls' = <<>>
    /\ loaded' = {}
    /\ loadSwallowed' = FALSE
    /\ analyzed' = <<>>
    /\ sigs' = 0
    /\ sigRunning' = FALSE
    /\ UNCHANGED <<disk, urls, sitemapVars, pageVars>>

Next ==
    \/ ReadUrls
    \/ LoadCheckpoint
    \/ FilterRemaining
    \/ LoopNext
    \/ AnalyzeWebsite
    \/ PersistResult
    \/ RecordFailure
    \/ AppendResult
    \/ AddCompleted
    \/ FlushCheckpoint
    \/ WriteSummary
    \/ RemoveCheckpoint
    \/ PrintComplete
    \/ BookkeepingError
    \/ FatalHandler
    \/ signal_handler
    \/ KeyboardInterrupt
    \/ Rerun

Spec == Init /\ [][Next]_vars

\* ------------------------------------------------------------ parse_sitemap
\* The call stack of parse_sitemap.  A frame is [sm, phase, i, urls]: the
\* sitemap URL it was called with, where it is (about to fetch, walking the
\* <sitemap> entries, about to return), the entry it is at, and its urls list.
Sitemaps == 1..NumSitemaps
Leaves == 1..NumLeaves

RECURSIVE SortedSeq(_)
SortedSeq(S) == IF S = {} THEN <<>>
                ELSE LET m == CHOOSE x \in S : \A y \in S : x <= y
                     IN <<m>> \o SortedSeq(S \ {m})

\* What the site serves under a sitemap URL: no 200 response (network error
\* or another status), a 200 response that is not well-formed XML, or a
\* document with <sitemap><loc> and <url><loc> entries, in document order.
\* ok: parse_sitemap gets a 200 response it can parse.
Documents ==
    {[http200 |-> FALSE, ok |-> FALSE, subs |-> <<>>, locs |-> <<>>],
     [http200 |-> TRUE, ok |-> FALSE, subs |-> <<>>, locs |-> <<>>]}
    \cup {[http200 |-> TRUE, ok |-> TRUE, subs |-> SortedSeq(S), locs |-> SortedSeq(L)] :
             S \in SUBSET Sitemaps, L \in SUBSET Leaves}

BatchIdle ==
    /\ urls = <<>>
    /\ checkpoint_file = NoCheckpoint
    /\ files = [d \in Domains |-> 0]
    /\ summary_file = NoSummary
    /\ pc = "idle"
    /\ completed_urls = {}
    /\ remaining_urls = <<>>
    /\ idx = 0
    /\ result = "unset"
    /\ all_results = <<>>
    /\ failed_urls = <<>>
    /\ run = 1
    /\ loaded = {}
    /\ loadSwallowed = FALSE
    /\ analyzed = <<>>
    /\ sigs = 0
    /\ sigRunning = FALSE
    /\ prevLoaded = {}
    /\ prevCompleted = {}
    /\ prevExit = "none"

\* full_url = urljoin(base_url, href): hrefs 2k-1 and 2k are two spellings
\* that resolve to the same URL k; href 0 resolves to a URL of another host.
Hrefs == 0..(2 * NumLeaves)

urljoin(h) == (h + 1) \div 2

\* urlparse(full_url).netloc == domain
SameDomain(u) == u # 0

\* all_urls.add(x) and all_urls.update(xs) on a set kept as the list of its
\* members (faulty variant: a list that is appended to)
list_append(s, x) == Append(s, x)

set_add(s, x) == IF x \in Range(s) THEN s ELSE Append(s, x)

RECURSIVE set_update(_, _)
set_update(s, xs) == IF xs = <<>> THEN s
                     ELSE set_update(set_add(s, Head(xs)), Tail(xs))

\* list(all_urls): the members in an order the program does not control
ListOf(s) == {[k \in 1..Len(s) |-> s[p[k]]] : p \in Permutations(1..Len(s))}

\* the in-domain link targets of the page, in document order
PageLinks == SelectSeq([k \in 1..Len(hrefs) |-> urljoin(hrefs[k])], SameDomain)

\* discover_all_urls(base_url, soup) is about to run on a page with some
\* links, for a site that serves some sitemap documents.
InitSitemap ==
    /\ BatchIdle
    /\ PageIdle
    /\ docs \in [Sitemaps -> Documents]
    /\ stack = <<>>
    /\ resolved = <<>>
    /\ fetched = <<>>
    /\ hrefs \in SeqsUpTo(Hrefs, MaxLinks)
    /\ dpc = "links"
    /\ all_urls = <<>>
    /\ probe = 0
    /\ probed = <<>>
    /\ discovered = <<>>

\* if soup: for link in soup.find_all('a', href=True): ... all_urls.add(full_url)
ExtractLinks ==
    /\ dpc = "links"
    /\ all_urls' = set_update(<<>>, PageLinks)
    /\ probe' = 1
    /\ dpc' = "probe"
    /\ UNCHANGED <<batchVars, pageVars, docs, stack, resolved, fetched, hrefs, probed, discovered>>

\* for sitemap_url in sitemap_urls: try: response = requests.get(sitemap_url)
\* Without a 200 response (or with an exception, "except: continue") the loop
\* goes to the next of sitemap.xml (1) and sitemap_index.xml (2).
ProbeSitemap ==
    /\ dpc = "probe"
    /\ probed' = Append(probed, probe)
    /\ IF docs[probe].http200
          THEN dpc' = "call" /\ UNCHANGED probe
          ELSE IF probe < 2
                 THEN probe' = probe + 1 /\ UNCHANGED dpc
                 ELSE dpc' = "return" /\ UNCHANGED probe
    /\ UNCHANGED <<batchVars, pageVars, docs, stack, resolved, fetched, hrefs, all_urls, discovered>>

\* all_urls.update(sitemap_urls_found); print(...); break
UpdateAndBreak ==
    /\ dpc = "parsing"
    /\ stack = <<>>
    /\ all_urls' = set_update(all_urls, resolved)
    /\ dpc' = "return"
    /\ UNCHANGED <<batchVars, pageVars, docs, stack, resolved, fetched, hrefs, probe, probed,
                   discovered>>

\* return list(all_urls)
ReturnUrls ==
    /\ dpc = "return"
    /\ discovered' \in ListOf(all_urls)
    /\ dpc' = "done"
    /\ UNCHANGED <<batchVars, pageVars, docs, stack, resolved, fetched, hrefs, all_urls, probe,
                   probed>>

Top == stack[Len(stack)]

Frame(sm) == [sm |-> sm, phase |-> "fetch", i |-> 0, urls |-> <<>>]

SetTop(f) == [stack EXCEPT ![Len(stack)] = f]

\* sitemap_urls_found = parse_sitemap(sitemap_url): the only call from
\* outside, made by discover_all_urls after a 200 response to its own request
ParseSitemapCall ==
    /\ dpc = "call"
    /\ stack = <<>>
    /\ stack' = <<Frame(probe)>>
    /\ dpc' = "parsing"
    /\ UNCHANGED <<batchVars, pageVars, docs, resolved, fetched, hrefs, all_urls, probe, probed,
                   discovered>>

\* Faulty variant of the fetch step: there is no try/except in the frame, so
\* a failing fetch or parse unwinds every frame and reaches the caller's
\* "except: continue" in discover_all_urls.
ParseSitemapFetchRaises ==
    /\ stack # <<>>
    /\ Top.phase = "fetch"
    /\ IF Len(stack) > RecLimit
          THEN /\ stack' = SetTop([Top EXCEPT !.phase = "ret"])
               /\ UNCHANGED <<fetched, dpc, probe>>
          ELSE /\ fetched' = Append(fetched, Top.sm)
               /\ IF docs[Top.sm].ok
                     THEN /\ stack' = SetTop([Top EXCEPT !.phase = "subs", !.i = 1])
                          /\ UNCHANGED <<dpc, probe>>
                     ELSE /\ stack' = <<>>
                          /\ IF probe < 2
                                THEN probe' = probe + 1 /\ dpc' = "probe"
                                ELSE dpc' = "return" /\ UNCHANGED probe
    /\ UNCHANGED <<batchVars, pageVars, docs, resolved, hrefs, all_urls, probed, discovered>>

\* urls = []; try: response = requests.get(...); if status 200: ET.fromstring
\* A call that would exceed the interpreter's recursion limit raises
\* RecursionError, an Exception, which the frame's own except clause catches.
ParseSitemapFetch ==
    /\ stack # <<>>
    /\ Top.phase = "fetch"
    /\ IF Len(stack) > RecLimit
          THEN /\ stack' = SetTop([Top EXCEPT !.phase = "ret"])
               /\ UNCHANGED fetched
          ELSE /\ fetched' = Append(fetched, Top.sm)
               /\ stack' = SetTop([Top EXCEPT !.phase = IF docs[Top.sm].ok THEN "subs" ELSE "ret",
                                               !.i = 1])
    /\ UNCHANGED <<batchVars, pageVars, docs, resolved, frontierVars>>

\* for sitemap in root.findall(...sitemap): urls.extend(parse_sitemap(loc.text))
ParseSitemapRecurse ==
    /\ stack # <<>>
    /\ Top.phase = "subs"
    /\ Top.i <= Len(docs[Top.sm].subs)
    /\ stack' = Append(stack, Frame(docs[Top.sm].subs[Top.i]))
    /\ UNCHANGED <<batchVars, pageVars, docs, resolved, fetched, frontierVars>>

\* for url in root.findall(...url): urls.append(loc.text)
ParseSitemapLocs ==
    /\ stack # <<>>
    /\ Top.phase = "subs"
    /\ Top.i > Len(docs[Top.sm].subs)
    /\ stack' = SetTop([Top EXCEPT !.phase = "ret", !.urls = @ \o docs[Top.sm].locs])
    /\ UNCHANGED <<batchVars, pageVars, docs, resolved, fetched, frontierVars>>

\* return urls
ParseSitemapReturn ==
    /\ stack # <<>>
    /\ Top.phase = "ret"
    /\ IF Len(stack) = 1
          THEN /\ resolved' = Top.urls
               /\ stack' = <<>>
          ELSE LET caller == stack[Len(stack) - 1]
               IN /\ stack' = [SubSeq(stack, 1, Len(stack) - 1) EXCEPT
                                  ![Len(stack) - 1] =
                                     [caller EXCEPT !.urls = @ \o Top.urls, !.i = @ + 1]]
                  /\ UNCHANGED resolved
    /\ UNCHANGED <<batchVars, pageVars, docs, fetched, frontierVars>>

NextSitemap ==
    \/ ExtractLinks
    \/ ProbeSitemap
    \/ UpdateAndBreak
    \/ ReturnUrls
    \/ ParseSitemapCall
    \/ ParseSitemapFetch
    \/ ParseSitemapRecurse
    \/ ParseSitemapLocs
    \/ ParseSitemapReturn

SpecSitemap == InitSitemap /\ [][NextSitemap]_vars

\* --------------------------------------------------------- categorize_urls
\* categorize_urls(urls) is about to run on a list without repeats, as
\* list(all_urls) in discover_all_urls gives it.
InitCategorize ==
    /\ BatchIdle
    /\ SitemapIdle
    /\ SelectIdle
    /\ AnalyzeIdle
    /\ cat_urls \in {u \in SeqsUpTo(SampleUrls, MaxUrls) : NoDup(u)}
    /\ ci = 0
    /\ categories = NoCategories

\* one pass of "for url in urls": the if/elif chain and its append
CategorizeUrl ==
    /\ ci < Len(cat_urls)
    /\ LET url == cat_urls[ci + 1]
       IN  categories' = [c \in Categories |->
                            IF c \in TargetsOf[url] THEN Append(categories[c], url)
                                                  ELSE categories[c]]
    /\ ci' = ci + 1
    /\ UNCHANGED <<batchVars, sitemapVars, selectVars, analyzeVars, cat_urls>>

NextCategorize == CategorizeUrl

SpecCategorize == InitCategorize /\ [][NextCategorize]_vars

\* ---------------------------------------------------- select_priority_urls
\* Faulty variant of the table: blog is walked first.
priority_categories_blog_first == <<
    [category |-> "blog",         limit |-> 3],
    [category |-> "homepage",     limit |-> 1],
    [category |-> "about",        limit |-> 2],
    [category |-> "products",     limit |-> 3],
    [category |-> "services",     limit |-> 2],
    [category |-> "pricing",      limit |-> 2],
    [category |-> "case_studies", limit |-> 2],
    [category |-> "team",         limit |-> 1],
    [category |-> "resources",    limit |-> 1] >>

\* the list priority_categories
priority_categories == <<
    [category |-> "homepage",     limit |-> 1],
    [category |-> "about",        limit |-> 2],
    [category |-> "products",     limit |-> 3],
    [category |-> "services",     limit |-> 2],
    [category |-> "pricing",      limit |-> 2],
    [category |-> "case_studies", limit |-> 2],
    [category |-> "blog",         limit |-> 3],
    [category |-> "team",         limit |-> 1],
    [category |-> "resources",    limit |-> 1] >>

\* the Python slice lst[:n]
slice_to(lst, n) ==
    IF n >= 0 THEN SubSeq(lst, 1, IF n < Len(lst) THEN n ELSE Len(lst))
    ELSE SubSeq(lst, 1, IF Len(lst) + n > 0 THEN Len(lst) + n ELSE 0)

\* The URLs of a category are told apart by category and position only.
UrlsIn(c, n) == [k \in 1..n |-> <<c, k>>]

\* select_priority_urls(categorized_urls, max_urls) is about to run on a
\* categorized set in which a few categories have URLs.
InitSelect ==
    /\ BatchIdle
    /\ SitemapIdle
    /\ CategorizeIdle
    /\ AnalyzeIdle
    /\ \E filled \in {f \in SUBSET Categories : Cardinality(f) <= MaxCats} :
          \E count \in [filled -> 1..MaxPerCat] :
             categorized_urls = [c \in Categories |->
                                   IF c \in filled THEN UrlsIn(c, count[c]) ELSE <<>>]
    /\ max_urls \in 0..MaxN
    /\ si = 0
    /\ priority_urls = <<>>
    /\ spc = "loop"
    /\ selected = <<>>

\* one pass of "for category, limit in priority_categories", with its break
SelectCategory ==
    /\ spc = "loop"
    /\ si < Len(priority_categories)
    /\ LET entry == priority_categories[si + 1]
           taken == slice_to(categorized_urls[entry.category], entry.limit)
       IN  /\ priority_urls' = priority_urls \o taken
           /\ spc' = IF Len(priority_urls \o taken) >= max_urls
                         \/ si + 1 = Len(priority_categories)
                        THEN "return" ELSE "loop"
    /\ si' = si + 1
    /\ UNCHANGED <<batchVars, sitemapVars, categorizeVars, analyzeVars,
                   categorized_urls, max_urls, selected>>

\* Faulty variant of the return: the list is returned as built.
SelectReturnAll ==
    /\ spc = "return"
    /\ selected' = priority_urls
    /\ spc' = "done"
    /\ UNCHANGED <<batchVars, sitemapVars, categorizeVars, analyzeVars,
                   categorized_urls, max_urls, si, priority_urls>>

\* return priority_urls[:max_urls]
SelectReturn ==
    /\ spc = "return"
    /\ selected' = slice_to(priority_urls, max_urls)
    /\ spc' = "done"
    /\ UNCHANGED <<batchVars, sitemapVars, categorizeVars, analyzeVars,
                   categorized_urls, max_urls, si, priority_urls>>

NextSelect == SelectCategory \/ SelectReturn

SpecSelect == InitSelect /\ [][NextSelect]_vars

\* --------------------------------------------------------- analyze_website
\* analyze_website(url) is about to run against some site.
InitAnalyze ==
    /\ BatchIdle
    /\ SitemapIdle
    /\ CategorizeIdle
    /\ SelectIdle
    /\ site \in Sites
    /\ apc = "tech"
    /\ called = <<>>
    /\ page_i = 0
    /\ all_content = <<>>
    /\ ret = NotReturned

\* technologies = detect_technologies(url, verbose=verbose)
DetectTechnologies ==
    /\ apc = "tech"
    /\ called' = Append(called, <<"detect_technologies">>)
    /\ apc' = "main"
    /\ UNCHANGED <<batchVars, sitemapVars, categorizeVars, selectVars,
                   site, page_i, all_content, ret>>

\* Faulty variant of the main-page step: the function goes on without the
\* main page's text.
GetMainPageContinues ==
    /\ apc = "main"
    /\ called' = Append(called, <<"get_page_content", "main">>)
    /\ apc' = "soup"
    /\ UNCHANGED <<batchVars, sitemapVars, categorizeVars, selectVars,
                   site, page_i, all_content, ret>>

\* main_content = get_page_content(url); if not main_content: return None
GetMainPage ==
    /\ apc = "main"
    /\ called' = Append(called, <<"get_page_content", "main">>)
    /\ IF site.main = "text"
          THEN apc' = "soup" /\ UNCHANGED ret
          ELSE apc' = "done" /\ ret' = [kind |-> "None"]
    /\ UNCHANGED <<batchVars, sitemapVars, categorizeVars, selectVars,
                   site, page_i, all_content>>

\* try: response = requests.get(url, ...); soup = ... except: soup = None
FetchSoup ==
    /\ apc = "soup"
    /\ called' = Append(called, <<"requests.get", "main">>)
    /\ apc' = "metadata"
    /\ UNCHANGED <<batchVars, sitemapVars, categorizeVars, selectVars,
                   site, page_i, all_content, ret>>

\* metadata = discover_metadata_files(url)
DiscoverMetadata ==
    /\ apc = "metadata"
    /\ called' = Append(called, <<"discover_metadata_files">>)
    /\ apc' = "discover"
    /\ UNCHANGED <<batchVars, sitemapVars, categorizeVars, selectVars,
                   site, page_i, all_content, ret>>

\* all_urls = discover_all_urls(url, soup); categorize_urls; select_priority_urls;
\* all_content = [main page]; if metadata: all_content.append(metadata files)
DiscoverUrls ==
    /\ apc = "discover"
    /\ called' = Append(called, <<"discover_all_urls">>)
    /\ all_content' = << <<"main">> >>
                       \o (IF site.meta # {} THEN << <<"metadata">> >> ELSE <<>>)
    /\ apc' = "pages"
    /\ UNCHANGED <<batchVars, sitemapVars, categorizeVars, selectVars,
                   site, page_i, ret>>

\* Faulty variant of the priority-page step: a page that gives no text ends
\* the analysis with None.
FetchPriorityPageFails ==
    /\ apc = "pages"
    /\ page_i < Len(PriorityPages)
    /\ called' = Append(called, <<"get_page_content", "page">>)
    /\ IF PriorityPages[page_i + 1]
          THEN /\ all_content' = Append(all_content, <<"page", page_i + 1>>)
               /\ UNCHANGED <<apc, ret>>
          ELSE /\ apc' = "done"
               /\ ret' = [kind |-> "None"]
               /\ UNCHANGED all_content
    /\ page_i' = page_i + 1
    /\ UNCHANGED <<batchVars, sitemapVars, categorizeVars, selectVars, site>>

\* for i, page_url in enumerate(priority_urls, 1):
\*     content = get_page_content(page_url, max_chars=4000); if content: append
FetchPriorityPage ==
    /\ apc = "pages"
    /\ page_i < Len(PriorityPages)
    /\ called' = Append(called, <<"get_page_content", "page">>)
    /\ all_content' = IF PriorityPages[page_i + 1]
                         THEN Append(all_content, <<"page", page_i + 1>>)
                         ELSE all_content
    /\ page_i' = page_i + 1
    /\ UNCHANGED <<batchVars, sitemapVars, categorizeVars, selectVars, site, apc, ret>>

\* ai_provider = create_ai_provider(...): the constructors call sys.exit(1)
\* when the service cannot be reached
CreateProvider ==
    /\ apc = "pages"
    /\ page_i = Len(PriorityPages)
    /\ called' = Append(called, <<"create_ai_provider">>)
    /\ IF site.provider
          THEN apc' = "generate" /\ UNCHANGED ret
          ELSE apc' = "done" /\ ret' = [kind |-> "SystemExit"]
    /\ UNCHANGED <<batchVars, sitemapVars, categorizeVars, selectVars,
                   site, page_i, all_content>>

\* summary = ai_provider.generate(prompt); return {...}
Generate ==
    /\ apc = "generate"
    /\ called' = Append(called, <<"generate">>)
    /\ ret' = [kind |-> "dict",
               priority_urls_analyzed |-> Len(PriorityPages),
               metadata_files_found |-> site.meta,
               technologies |-> site.tech,
               analysis |-> site.gen]
    /\ apc' = "done"
    /\ UNCHANGED <<batchVars, sitemapVars, categorizeVars, selectVars,
                   site, page_i, all_content>>

NextAnalyze ==
    \/ DetectTechnologies
    \/ GetMainPage
    \/ FetchSoup
    \/ DiscoverMetadata
    \/ DiscoverUrls
    \/ FetchPriorityPage
    \/ CreateProvider
    \/ Generate

SpecAnalyze == InitAnalyze /\ [][NextAnalyze]_vars

\* ------------------------------------------------------------- properties
AnalyzedUrls == [k \in 1..Len(analyzed) |-> analyzed[k].url]

\* identifiers analyze_website gave an analysis for / failed on, in this run
Succeeded == {analyzed[k].url : k \in {j \in 1..Len(analyzed) : analyzed[j].out = "ok"}}
Failed == {analyzed[k].url : k \in {j \in 1..Len(analyzed) : analyzed[j].out = "failed"}}

\* the failed calls of this run, in call order
FailedCalls == SelectSeq(analyzed, LAMBDA a : a.out = "failed")

UrlsOf(calls) == [k \in 1..Len(calls) |-> calls[k].url]

\* successes whose bookkeeping (append, add, flush) is finished
Settled == IF pc \in {"settle", "append", "add", "save"} /\ result = "ok"
           THEN {analyzed[k].url : k \in {j \in 1..(Len(analyzed) - 1) : analyzed[j].out = "ok"}}
           ELSE Succeeded

Flushed(f, c) == f.exists /\ f.valid /\ f.completed = c

\* the filter has been computed in this run
Filtered == idx >= 1

\* C1: a run that follows an interrupted run (and is not itself interrupted
\* while it loads the checkpoint) loads exactly what the interrupted run had
\* completed, calls analyze_website on no identifier of that set, and, when
\* its loop is over, has called it on exactly the other worklist identifiers.
CheckpointResumable ==
    (run > 1 /\ prevExit = "exit_sigint" /\ ~loadSwallowed /\ Filtered) =>
        /\ loaded = prevCompleted
        /\ \A k \in 1..Len(analyzed) :
              analyzed[k].url \notin prevCompleted /\ analyzed[k].url \in Range(urls)
        /\ pc = "summary" =>
              AnalyzedUrls = SelectSeq(urls, LAMBDA u : u \notin prevCompleted)

\* C1 witness: worklist of 3, 1 in the checkpoint, interrupt after a 2nd was
\* completed; the next run has processed the 3rd only.
CheckpointResumableWitness ==
    /\ run = 2
    /\ prevExit = "exit_sigint"
    /\ urls = <<1, 2, 3>>
    /\ prevLoaded = {1}
    /\ prevCompleted = {1, 2}
    /\ pc = "summary"
    /\ AnalyzedUrls = <<3>>

\* C2: the recursion of parse_sitemap is bounded by the sitemap graph, cyclic
\* or not: it is never deeper than the number of sitemap documents (no
\* sitemap is entered again while it is being resolved).
SitemapRecursionBounded == Len(stack) <= NumSitemaps

\* C3: whenever the loop starts analysing an item or is left, the checkpoint
\* file holds every identifier loaded from the prior checkpoint and every
\* identifier analysed successfully so far in this run.
FlushAfterEachSuccess ==
    pc \in {"analyzing", "summary"} =>
        /\ completed_urls = loaded \cup Succeeded
        /\ completed_urls \subseteq CheckpointContents(checkpoint_file)

FlushAfterEachSuccessWitness ==
    /\ pc = "analyzing"
    /\ loaded # {}
    /\ Succeeded # {}
    /\ Succeeded \cap loaded = {}
    /\ checkpoint_file.completed = loaded \cup Succeeded

\* C4: a SIGINT handled while the loop runs leaves a checkpoint file holding
\* exactly the completed set (loaded plus added in this run); the process
\* has exited through the handler only with that file written; an item in
\* flight that was not yet added to the completed set is not in the file.
InterruptFlushesCompleted ==
    [][(sigRunning' /\ pc \in Running) =>
          /\ Flushed(checkpoint_file', completed_urls)
          /\ completed_urls' = completed_urls
          /\ completed_urls = loaded \cup Settled \cup (IF pc = "save" THEN {Cur} ELSE {})
          /\ pc' = "exit_sigint" => ExitStatus(pc') = 0
          /\ (pc \in {"analyzing", "settle", "append", "add"} /\ Cur \notin Settled)
                => Cur \notin checkpoint_file'.completed]_vars

InterruptFlushesCompletedWitness ==
    /\ pc = "exit_sigint"
    /\ sigRunning
    /\ loaded # {}
    /\ Settled # {}
    /\ idx <= Len(remaining_urls)
    /\ result = "ok"
    /\ Cur \notin checkpoint_file.completed
    /\ checkpoint_file.completed = loaded \cup Settled

ThisRunsSummary ==
    /\ summary_file.run = run
    /\ summary_file.total_urls = Len(urls)
    /\ summary_file.completed = Cardinality(completed_urls)
    /\ summary_file.failed = Len(failed_urls)
    /\ summary_file.failed_urls = failed_urls
    /\ summary_file.results = all_results

CompletionSummaryThenDelete ==
    /\ pc \in {"remove", "print", "returned"} => ThisRunsSummary
    /\ pc \in {"print", "returned"} => ~checkpoint_file.exists

CompletionSummaryThenDeleteWitness ==
    /\ pc = "returned"
    /\ all_results # <<>>
    /\ failed_urls # <<>>
    /\ ThisRunsSummary
    /\ ~checkpoint_file.exists

\* C7: a run that returns, with remaining_urls exhausted or empty from the
\* start, leaves no checkpoint file.
ZeroRemainingDeletesCheckpoint ==
    pc \in {"returned", "returned_early"} => ~checkpoint_file.exists

\* C8: in a run that loaded nothing, over a duplicate-free worklist, the
\* summary counts as completed the items analyze_website succeeded on and as
\* failed the items it failed on, failed_urls is the failing identifiers in
\* worklist order, no identifier is analysed twice, the checkpoint file is
\* gone when the run returns, and the run after it starts from the whole
\* worklist again (so it analyses the failed identifiers again).
EndToEndSummary ==
    /\ (summary_file.run = run /\ loaded = {} /\ NoDup(urls)) =>
          /\ summary_file.total_urls = Len(urls)
          /\ summary_file.completed = Cardinality(Succeeded)
          /\ summary_file.failed = Cardinality(Failed)
          /\ summary_file.failed_urls = SelectSeq(urls, LAMBDA u : u \in Failed)
          /\ Succeeded \cap Failed = {}
          /\ NoDup(AnalyzedUrls)
          /\ pc = "returned" => ~checkpoint_file.exists
    /\ (run > 1 /\ prevExit = "returned" /\ Filtered) =>
          /\ remaining_urls = urls
          /\ pc = "summary" => AnalyzedUrls = urls

\* C8 witness: [a.com, b.com] with b.com failing in the Text Generator.
EndToEndSummaryWitness ==
    /\ run = 1
    /\ pc = "returned"
    /\ urls = <<1, 3>>
    /\ loaded = {}
    /\ analyzed = <<[url |-> 1, out |-> "ok"], [url |-> 3, out |-> "failed"]>>
    /\ result = "noanalysis"
    /\ summary_file.completed = 1
    /\ summary_file.failed = 1
    /\ summary_file.failed_urls = <<3>>
    /\ ~checkpoint_file.exists

\* C9: a run that ended in the outer "except Exception" handler exited with
\* a non-zero status and left a checkpoint file holding its completed set;
\* the run after it loads that set and analyses none of its identifiers.
FatalFlushesCheckpoint ==
    /\ pc = "exit_fatal" =>
          /\ Flushed(checkpoint_file, completed_urls)
          /\ completed_urls = loaded \cup Settled
          /\ ExitStatus(pc) # 0
    /\ (run > 1 /\ prevExit = "exit_fatal" /\ ~loadSwallowed /\ Filtered) =>
          /\ loaded = prevCompleted
          /\ \A k \in 1..Len(analyzed) : analyzed[k].url \notin prevCompleted

FatalFlushesCheckpointWitness ==
    /\ run = 2
    /\ prevExit = "exit_fatal"
    /\ prevCompleted # prevLoaded
    /\ loaded = prevCompleted
    /\ pc = "summary"
    /\ analyzed # <<>>

\* C10: remaining_urls is the worklist without the loaded identifiers, in
\* worklist order; analyze_website is called on its items in that order, and
\* a call starts only when every earlier call has returned and its outcome
\* is recorded (result appended and checkpoint flushed, or failure recorded).
WorklistOrder ==
    Filtered =>
        /\ remaining_urls = SelectSeq(urls, LAMBDA u : u \notin loaded)
        /\ Len(analyzed) <= Len(remaining_urls)
        /\ \A k \in 1..Len(analyzed) : analyzed[k].url = remaining_urls[k]
        /\ \A k \in 1..(Len(analyzed) - 1) : analyzed[k].out # "running"
        /\ pc = "analyzing" =>
              /\ Len(all_results) + Len(failed_urls) = Len(analyzed) - 1
              /\ Succeeded \subseteq CheckpointContents(checkpoint_file)
              /\ failed_urls = UrlsOf(FailedCalls)

WorklistOrderWitness ==
    /\ pc = "analyzing"
    /\ urls = <<3, 1, 2>>
    /\ loaded = {1}
    /\ AnalyzedUrls = <<3, 2>>
    /\ analyzed[1].out = "ok"

\* C11: a checkpoint file that is missing or cannot be read as the expected
\* structure gives an empty completed set; with nothing loaded the remaining
\* list is the whole worklist; and no run ends in an error exit before the
\* checkpoint has been loaded and the worklist filtered.
CorruptCheckpointIsEmpty ==
    /\ (pc = "filter" /\ ~(checkpoint_file.exists /\ checkpoint_file.valid)) =>
          completed_urls = {} /\ loaded = {}
    /\ (Filtered /\ loaded = {}) => remaining_urls = urls
    /\ pc \in {"exit_fatal", "exit_provider"} => Filtered

\* C11 witness: the first item is being analysed while the unreadable file
\* is still on disk.
CorruptCheckpointIsEmptyWitness ==
    /\ pc = "analyzing"
    /\ checkpoint_file.exists
    /\ ~checkpoint_file.valid
    /\ Len(urls) = 3
    /\ remaining_urls = urls

SitemapVisitedOnce ==
    /\ NoDup(fetched)
    /\ \A leaf \in Leaves :
          Cardinality({sm \in Range(fetched) : leaf \in Range(docs[sm].locs)}) <= 1 =>
             Cardinality({k \in 1..Len(resolved) : resolved[k] = leaf}) <= 1

\* C14: discover_all_urls asks for sitemap.xml (1) first and sitemap_index.xml
\* (2) second; when it returns, the second was not asked for if the first
\* resolved to some URLs, and it was asked for if the first resolved to none.
SitemapFallback ==
    /\ probed \in {<<>>, <<1>>, <<1, 2>>}
    /\ dpc \in {"return", "done"} =>
          /\ probed # <<>>
          /\ (fetched # <<>> /\ fetched[1] = 1 /\ resolved # <<>>) => probed = <<1>>
          /\ probed = <<1>> => resolved # <<>>

\* C19: all_urls never holds a URL twice, and the list discover_all_urls
\* returns holds each in-domain link target of the page and each URL the
\* sitemap resolution returned exactly once, and nothing else.
FrontierDedup ==
    /\ NoDup(all_urls)
    /\ dpc = "done" =>
          /\ NoDup(discovered)
          /\ Range(discovered) =
                Range(PageLinks) \cup (IF docs[probe].http200 THEN Range(resolved) ELSE {})

FrontierDedupWitness ==
    /\ dpc = "done"
    /\ Len(hrefs) = 2
    /\ hrefs[1] # hrefs[2]
    /\ urljoin(hrefs[1]) = 1
    /\ urljoin(hrefs[2]) = 1
    /\ 1 \in Range(resolved)
    /\ discovered = <<1>>

\* the order of the rules as the first-match rule states it
FirstMatchOrder == <<"homepage", "about", "products", "services", "blog", "case_studies",
                     "testimonials", "pricing", "contact", "team", "careers", "news",
                     "resources", "other">>

OrderOf(c) == CHOOSE k \in 1..Len(FirstMatchOrder) : FirstMatchOrder[k] = c

\* the rule of category c matches the path: homepage by the three literal
\* paths, other always, the rest by one of their keywords
RuleMatches(c, path) ==
    IF c = "homepage" THEN path \in HomePaths
    ELSE IF c = "other" THEN TRUE
    ELSE \E r \in 1..Len(Rules) : Rules[r].category = c /\ AnyKeyword(r, path)

MatchingOf == [url \in SampleUrls |->
                 {c \in Categories : RuleMatches(c, lower(urlparse_path(url)))}]

\* C15: every URL the loop has handled is under the category that comes first,
\* in the order homepage, about, products, services, blog, case_studies,
\* testimonials, pricing, contact, team, careers, news, resources, other, among
\* the categories whose rule matches its lower-cased path.
FirstMatchWins ==
    \A k \in 1..ci :
       \A c \in Categories :
          cat_urls[k] \in Range(categories[c]) <=>
             /\ c \in MatchingOf[cat_urls[k]]
             /\ \A b \in MatchingOf[cat_urls[k]] : OrderOf(c) <= OrderOf(b)

FirstMatchWinsWitness ==
    /\ ci = Len(cat_urls)
    /\ "https://site.test/about/careers" \in Range(categories["about"])
    /\ "https://site.test/jobs/press" \in Range(categories["careers"])
    /\ "https://site.test/About-Us" \in Range(categories["about"])

\* C16: the categories hold the handled URLs and nothing else, each URL under
\* exactly one category and once, and each category's list is in input order.
CategoriesPartition ==
    LET handled == SubSeq(cat_urls, 1, ci)
    IN  /\ \A u \in Range(handled) :
              Cardinality({c \in Categories : u \in Range(categories[c])}) = 1
        /\ \A c \in Categories :
              categories[c] = SelectSeq(handled, LAMBDA u : u \in Range(categories[c]))

CategoriesPartitionWitness ==
    /\ ci = Len(cat_urls)
    /\ cat_urls = <<"https://site.test/people", "https://site.test/products/pricing",
                    "https://site.test/home/team">>
    /\ categories["team"] = <<"https://site.test/people", "https://site.test/home/team">>
    /\ categories["products"] = <<"https://site.test/products/pricing">>
    /\ categories["pricing"] = <<>>

\* C17: the list select_priority_urls returns is no longer than max_urls.
SelectorBound == spc = "done" => Len(selected) <= max_urls

SelectorBoundWitness ==
    /\ spc = "done"
    /\ max_urls = 4
    /\ Len(priority_urls) = 5
    /\ Len(selected) = 4

\* the priority table as the selector's contract gives it
WalkOrder == << <<"homepage", 1>>, <<"about", 2>>, <<"products", 3>>, <<"services", 2>>,
                <<"pricing", 2>>, <<"case_studies", 2>>, <<"blog", 3>>, <<"team", 1>>,
                <<"resources", 1>> >>

FirstOf(lst, cap) == [k \in 1..(IF cap < Len(lst) THEN cap ELSE Len(lst)) |-> lst[k]]

\* the walk over the first k table entries
RECURSIVE Walk(_)
Walk(k) == IF k = 0 THEN <<>>
           ELSE Walk(k - 1) \o FirstOf(categorized_urls[WalkOrder[k][1]], WalkOrder[k][2])

IsPrefix(a, b) == Len(a) <= Len(b) /\ \A k \in 1..Len(a) : a[k] = b[k]

\* C18: the returned list is a prefix of the priority-table walk, namely its
\* first max_urls elements (so it is a function of the input alone), and it
\* holds no URL of testimonials, contact, careers, news or other.
SelectorOrder ==
    spc = "done" =>
       /\ IsPrefix(selected, Walk(Len(WalkOrder)))
       /\ selected = FirstOf(Walk(Len(WalkOrder)), max_urls)
       /\ \A k \in 1..Len(selected) :
             selected[k][1] \notin {"testimonials", "contact", "careers", "news", "other"}

SelectorOrderWitness ==
    /\ spc = "done"
    /\ max_urls = 4
    /\ Len(categorized_urls["other"]) = 2
    /\ Len(categorized_urls["blog"]) = 4
    /\ Len(categorized_urls["about"]) = 3
    /\ selected = << <<"about", 1>>, <<"about", 2>>, <<"blog", 1>>, <<"blog", 2>> >>

\* the kinds of call named by the main-page rule
AfterMainPage == {<<"discover_metadata_files">>, <<"discover_all_urls">>,
                  <<"get_page_content", "page">>, <<"create_ai_provider">>,
                  <<"generate">>}

\* C20: when get_page_content gives no text for the main page, analyze_website
\* makes no metadata fetch, URL discovery, priority-page fetch or text
\* generator call, collects nothing, and returns None.
MainPageHardStop ==
    site.main # "text" =>
       /\ Range(called) \cap AfterMainPage = {}
       /\ all_content = <<>>
       /\ ret.kind \in {"pending", "None"}
       /\ apc = "done" => ret.kind = "None"
       /\ Len(called) >= 2 => apc = "done"

MainPageHardStopWitness ==
    /\ apc = "done"
    /\ site.main = "none"
    /\ site.meta = MetaFiles
    /\ site.pages = <<TRUE, TRUE>>
    /\ site.provider
    /\ site.gen
    /\ called = << <<"detect_technologies">>, <<"get_page_content", "main">> >>
    /\ ret.kind = "None"

\* the sections of the prompt for the pages that gave a text, in order
RECURSIVE PageSections(_)
PageSections(k) ==
    IF k = 0 THEN <<>>
    ELSE PageSections(k - 1) \o (IF site.pages[k] THEN << <<"page", k>> >> ELSE <<>>)

\* C21: when the main page gives a text and the text generator is created and
\* returns a text, analyze_website returns a result with an analysis whatever
\* the technology detection, the second main-page request, the metadata files,
\* the sitemaps and the priority pages do; every priority page is requested,
\* one that gives no text is left out of the content and nothing else is, and
\* the technologies are empty when the detection fails.
BestEffortSteps ==
    (apc = "done" /\ site.main = "text" /\ site.provider /\ site.gen) =>
       /\ ret.kind = "dict"
       /\ ret.analysis
       /\ ret.technologies = site.tech
       /\ ret.metadata_files_found = site.meta
       /\ page_i = Len(PriorityPages)
       /\ ret.priority_urls_analyzed = Len(PriorityPages)
       /\ all_content = << <<"main">> >>
                           \o (IF site.meta # {} THEN << <<"metadata">> >> ELSE <<>>)
                           \o PageSections(Len(PriorityPages))

BestEffortStepsWitness ==
    /\ apc = "done"
    /\ site.main = "text"
    /\ ~site.tech
    /\ ~site.sitemap
    /\ site.dom
    /\ site.meta = {}
    /\ site.pages = <<FALSE, TRUE>>
    /\ ret.kind = "dict"
    /\ ret.analysis
    /\ all_content = << <<"main">>, <<"page", 2>> >>

\* identifiers this run has added to its completed set
CompletedThisRun == completed_urls \ loaded

\* C22: when a run has ended, every identifier it completed has its own result
\* file, holding the result of that identifier.
PerSiteOutput ==
    pc \in Terminal => \A u \in CompletedThisRun : files[Domain(u)] = u

\* C23: after the checkpoint file has been removed (the run is at its closing
\* prints), no step of the run creates it again.
RemovedCheckpointStaysRemoved ==
    [][pc = "print" => ~checkpoint_file'.exists]_vars

\* C24: the identifier analyze_website is called with is not in completed_urls.
CompletedNeverAnalyzed ==
    pc = "analyzing" => Cur \notin completed_urls

\* C25: in the summary written by the run, completed is the length of results
\* and completed plus failed is the number of items the run attempted.
SummaryCountsAgree ==
    summary_file.run = run =>
       /\ summary_file.completed = Len(summary_file.results)
       /\ summary_file.completed + summary_file.failed = Len(remaining_urls)

\* C26: every identifier that the checkpoint file holds and that this run
\* added has its result record on disk.
PersistBeforeCheckpoint ==
    (Filtered /\ ~loadSwallowed) =>
       \A u \in CheckpointContents(checkpoint_file) \ loaded : files[Domain(u)] = u

====
